---- MODULE Spec2Model ----
(***************************************************************************)
(* Model of the task runner's two entry points, `run` (src/cli/run.rs) and *)
(* `watch` (src/cli/watch.rs), and of the pieces they share: the cache     *)
(* gate calls, the Ctrl-C toggle, the file-event queue of FileWatcher      *)
(* (src/task/reload.rs) and the process-wide SIGNAL_HANDLER state.         *)
(*                                                                         *)
(* Time is counted in ticks of 100 ms: the 500 ms and 300 ms debounce      *)
(* windows are 5 and 3 ticks, the 100 ms grace sleep is 1 tick.            *)
(***************************************************************************)
EXTENDS Integers, Sequences, FiniteSets, TLC

\* ---- bounds of the model ------------------------------------------------
MaxTasks == 2
MaxEvents == 2
MaxInterrupts == 1
MaxTime == 6
MaxSessions == 2
MaxPaths == 3
MaxSends == 102

\* ---- program constants --------------------------------------------------
DebounceWatch == 5
DebounceRun == 3
GraceSleep == 1
NotFoundCode == 127
SigintExit == 130
ChannelCapacity == 100

\* exit codes a command is let to finish with: success, a plain failure and
\* "command not found"
ExitCodes == {0, 1, NotFoundCode}
\* outcomes of preparing a command: the script and the working directory are
\* fine, as_deno_script() fails, working_directory() fails
ScriptOutcomes == {"ok", "FailedToParseShellScript", "InvalidWorkingDirectory"}
\* notify::EventKind, and "Error" for an Err item of the stream
EventKinds == {"Access", "Create", "Modify", "Remove", "Other"}
StreamItems == EventKinds \cup {"Error"}
Envs == {"default", "test"}
\* the callers of setup_signal_handler()
Sessions == 1..MaxSessions

VARIABLES
    \* the invocation: which command, its flags, the workspace
    mode, dry_run, order, tasksAvailable,
    \* control: position in execute(), loop index, the way the process ended
    pc, task_idx, result, exitCode, listed,
    \* the Ctrl-C handler of ctrlc::set_handler and its toggle
    handlerInstalled, ctrlc_should_exit_process, hpc, interrupts,
    \* the cache gate: tasks for which can_skip / save_cache were called, tasks
    \* of which an exit code 0 was observed, and how each task's step ended
    consulted, saved, observedZero, endCause,
    \* activation environments: the memo map's keys, and the tasks on whose
    \* behalf an environment was computed
    task_envs, envComputedFor,
    \* every command execution started so far, the run the session's
    \* task_handle refers to, and the kill signals that were triggered
    runs, task_handle, handleConsumed, killTriggered, was_cancelled,
    \* the broadcast channel of watch
    subscribed, cancelPending,
    \* the FileWatcher of the current session
    watcherAlive, queue, eventsSent, watchersCreated, last_reload, last_exec_time,
    \* the changes the debounce test has discarded so far
    debounced,
    \* SIGNAL_HANDLER of run.rs and its listener task
    signalHandlerSet, cancellation_requested, active_watchers, listener,
    \* wall clock, in ticks
    now,
    \* the kind of input pattern the watched task declares
    pattern,
    \* the instant the first change of a burst of changes was made, and the
    \* number of changes of the burst so far
    burstStart, burstSize,
    \* SIGNAL_HANDLER and its users when sessions run concurrently: every
    \* SignalState created, the OnceLock's content, the listener task spawned
    \* with each state, each session's position and the state it holds
    handlers, signalHandlerCell, listeners, spc, hold, sigints, hitAttached,
    \* one call of FileWatcher::new: its argument, its position, the result of
    \* expanding each path, the index of the result being installed, the
    \* watches registered with the notify watcher, and the Vec watched_paths
    paths, fwpc, path_results, result_idx, os_watches, watched_vec,
    \* the channel of one FileWatcher seen item by item: what next_event()
    \* has returned so far, and the item the callback is sending (0: none)
    received, sending

cfgVars == <<mode, dry_run, order, tasksAvailable, pattern>>
ctlVars == <<pc, task_idx, result, exitCode, listed>>
sigVars == <<handlerInstalled, ctrlc_should_exit_process, hpc, interrupts>>
cacheVars == <<consulted, saved, observedZero, endCause>>
envVars == <<task_envs, envComputedFor>>
runVars == <<runs, task_handle, handleConsumed, killTriggered, was_cancelled>>
chanVars == <<subscribed, cancelPending>>
watchVars == <<watcherAlive, queue, eventsSent, watchersCreated, last_reload,
              last_exec_time, debounced>>
coordVars == <<signalHandlerSet, cancellation_requested, active_watchers, listener>>
burstVars == <<burstStart, burstSize>>
coVars == <<handlers, signalHandlerCell, listeners, spc, hold, sigints, hitAttached>>
fwVars == <<paths, fwpc, path_results, result_idx, os_watches, watched_vec>>

\* everything execute() of run.rs and of watch.rs works on
progVars == <<cfgVars, ctlVars, sigVars, cacheVars, envVars, runVars, chanVars,
              watchVars, coordVars, now>>
mpscVars == <<received, sending>>
vars == <<progVars, burstVars, coVars, fwVars, mpscVars>>

\* ---- the invocation -------------------------------------------------------
TaskAttrs == [executable : BOOLEAN, watched : BOOLEAN, cacheHit : BOOLEAN, env : Envs]
\* topological_order(): the tasks in the order the graph returns them; a task
\* is named by its position
Orders == UNION {[1..k -> TaskAttrs] : k \in 1..MaxTasks}
TaskIds == DOMAIN order

\* the inputs (watch) / watched_files (run) entry of the watched task, by the
\* branch of FileWatcher::new it takes: a pattern with glob metacharacters
\* whose walk yields existing entries, no entry at all, or only entries that
\* do not exist (any more); a pattern wax::Glob::new rejects; a plain path that
\* exists, one that does not while its parent does, one without even a parent
PatternKinds == {"glob_matching", "glob_unmatched", "glob_dangling", "glob_invalid",
                 "path_exists", "path_missing", "path_orphan"}
IsGlob(p) == p \in {"glob_matching", "glob_unmatched", "glob_dangling", "glob_invalid"}
\* the files a change can be made to: an input that existed when the watcher
\* was built, a file matching the pattern that is created later, a file next
\* to the inputs that matches no pattern, and one elsewhere in the working
\* directory that matches no pattern
Files == {"input", "created_input", "sibling", "elsewhere"}
MatchesPattern(f) == f \in {"input", "created_input"}

\* the states of the program before execute() is entered
InitProg(patterns) ==
    /\ mode \in {"run", "watch"}
    /\ dry_run \in BOOLEAN
    /\ order \in Orders
    /\ tasksAvailable \in BOOLEAN
    /\ pattern \in patterns
    /\ pc = "start" /\ task_idx = 1 /\ result = "none" /\ exitCode = 0 /\ listed = FALSE
    /\ handlerInstalled = FALSE /\ ctrlc_should_exit_process = TRUE
    /\ hpc = "idle" /\ interrupts = 0
    /\ consulted = {} /\ saved = {} /\ observedZero = {}
    /\ endCause = [t \in DOMAIN order |-> "none"]
    /\ task_envs = {} /\ envComputedFor = {}
    /\ runs = <<>> /\ task_handle = 0 /\ handleConsumed = FALSE
    /\ killTriggered = {} /\ was_cancelled = FALSE
    /\ subscribed = FALSE /\ cancelPending = 0
    /\ watcherAlive = FALSE /\ queue = <<>> /\ eventsSent = 0 /\ watchersCreated = 0
    /\ last_reload = 0 /\ last_exec_time = 0 /\ debounced = 0
    /\ signalHandlerSet = FALSE /\ cancellation_requested = FALSE
    /\ active_watchers = 0 /\ listener = "none"
    /\ now = 0
    /\ burstStart = 0 /\ burstSize = 0

\* no session has called setup_signal_handler() yet
CoInit ==
    /\ handlers = <<>> /\ signalHandlerCell = 0 /\ listeners = <<>>
    /\ spc = [s \in Sessions |-> "idle"] /\ hold = [s \in Sessions |-> 0]
    /\ sigints = 0 /\ hitAttached = FALSE

\* FileWatcher::new as called with the given paths, before its first statement
FwInit(args) ==
    /\ paths \in args /\ fwpc = "called"
    /\ path_results = <<>> /\ result_idx = 1
    /\ os_watches = <<>> /\ watched_vec = <<>>

\* mpsc::channel(100): nothing sent, nothing received
MpscInit == received = <<>> /\ sending = 0

Init == InitProg({"path_exists"}) /\ CoInit /\ FwInit({<<>>}) /\ MpscInit

\* ---- helpers --------------------------------------------------------------
Alive == pc \notin {"done", "exited", "panicked"}
Running == {r \in DOMAIN runs : runs[r].st = "running"}
\* (mutant: every run is given the kill signal of the first one)
NewKillSignal_Shared == IF runs = <<>> THEN Len(runs) + 1 ELSE runs[1].token
\* KillSignal::default(): a new token, made for the run that is started next
NewKillSignal == Len(runs) + 1
NewRun(t, k) ==
    [task |-> t, kind |-> k, st |-> "running", code |-> 0, token |-> NewKillSignal]
Exited(r, c) == [runs EXCEPT ![r].st = "exited", ![r].code = c]

\* is_executable(): false for an alias
IsExecutable(t) == order[t].executable
\* (mutant: the dry-run test is missing)
DryRunContinue_Missing == FALSE
\* the dry-run test that precedes the cache gate and the execution
DryRunContinue == dry_run
\* (mutant: a cache hit is not honoured)
CanSkipYes_Never(t) == FALSE
\* can_skip() answered CanSkip::Yes
CanSkipYes(t) == order[t].cacheHit
\* watched_files (run) / inputs (watch) is present and not empty
HasWatchedFiles(t) == order[t].watched
\* (mutant: the step is spawned, not awaited)
StepAwaited_Spawned == pc \in {"r_loop", "r_exec", "r_init"}
\* the commands the loop may start only when the previous step has returned
StepAwaited == pc = "r_loop"
\* (mutant: the listing is tied to the wrong exit code)
IsNotFound_One(code) == code = 1
\* the exit code for which command_not_found() is called
IsNotFound(code) == code = NotFoundCode
\* command_not_found() prints the listing only if there are tasks to list
CommandNotFound == tasksAvailable
\* (mutant: every kind of event counts as a change)
Qualifies_All(kind) == kind \in EventKinds
\* the event kinds that count as a change
Qualifies(kind) == kind \in {"Create", "Modify", "Remove"}
\* the debounce tests of the two loops
DebouncedRun(t, last) == t - last < DebounceRun
\* (mutant: no debounce window in the watch loop)
AcceptedWatch_Always(t, last) == TRUE
AcceptedWatch(t, last) == t - last >= DebounceWatch

\* (mutant: the error is returned instead of exiting with the task's code)
ExitNonZero_Returned(code) ==
    /\ pc' = "exited" /\ result' = "nonzero" /\ exitCode' = 1
    /\ listed' = (listed \/ (code = NotFoundCode /\ tasksAvailable))
\* std::process::exit(code) after a non-zero exit code
ExitNonZero(code) ==
    /\ pc' = "exited" /\ result' = "nonzero" /\ exitCode' = code
    /\ listed' = (listed \/ (IsNotFound(code) /\ CommandNotFound))
\* execute() returns Err(err): the process ends with a diagnostic
ReturnErr ==
    /\ pc' = "done" /\ result' = "error" /\ exitCode' = 1 /\ listed' = listed

\* ---- SIGNAL_HANDLER (run.rs) ----------------------------------------------
\* (mutant: every caller starts from a fresh flag)
SetupSignalHandler_Resets ==
    /\ signalHandlerSet' = TRUE
    /\ cancellation_requested' = FALSE
    /\ active_watchers' = active_watchers + 1
    /\ listener' = IF signalHandlerSet THEN listener ELSE "armed"
\* setup_signal_handler(): the first caller creates the state and spawns the
\* listener, every later caller increments active_watchers
SetupSignalHandler ==
    IF signalHandlerSet
    THEN /\ active_watchers' = active_watchers + 1
         /\ UNCHANGED <<signalHandlerSet, cancellation_requested, listener>>
    ELSE /\ signalHandlerSet' = TRUE
         /\ cancellation_requested' = FALSE
         /\ active_watchers' = 1
         /\ listener' = "armed"
\* cleanup_signal_handler()
CleanupSignalHandler ==
    /\ active_watchers' = active_watchers - 1
    /\ UNCHANGED <<signalHandlerSet, cancellation_requested, listener>>
\* the spawned listener task: after its one sigint.recv() it sets the flag
ListenerSetsFlag ==
    /\ Alive /\ listener = "fired"
    /\ cancellation_requested' = TRUE
    /\ listener' = "done"
    /\ UNCHANGED <<signalHandlerSet, active_watchers>>
    /\ UNCHANGED <<cfgVars, burstVars, coVars, fwVars, mpscVars, ctlVars, sigVars, cacheVars, envVars, runVars, chanVars,
                   watchVars, now>>

\* ---- the FileWatcher's event stream (reload.rs) ---------------------------
\* the directory a glob is walked from, and watched when the walk finds nothing
CurrentDir == "current_dir"
\* wax::Glob::new(&path_str)? returns Err(PatternError)
PatternRejected(p) == p = "glob_invalid"
\* (mutant: the parent directory is queued for a path that exists)
PathsToWatch_ParentOnly(p) ==
    CASE p = "glob_matching" -> {"matches"}
      [] p = "glob_unmatched" -> {CurrentDir}
      [] p = "path_exists" -> {"parent"}
      [] p = "path_missing" -> {"parent"}
      [] OTHER -> {}
\* (mutant: a glob without a match queues nothing)
PathsToWatch_NoFallback(p) ==
    CASE p = "glob_matching" -> {"matches"}
      [] p = "path_exists" -> {"matches"}
      [] p = "path_missing" -> {"parent"}
      [] OTHER -> {}
\* paths_to_watch of FileWatcher::new: the existing entries of a glob, or
\* current_dir when the walk found no entry; a path that exists, or else its
\* parent when that exists
PathsToWatch(p) ==
    CASE p = "glob_matching" -> {"matches"}
      [] p = "glob_unmatched" -> {CurrentDir}
      [] p = "path_exists" -> {"matches"}
      [] p = "path_missing" -> {"parent"}
      [] OTHER -> {}
\* the files whose changes a watch on a path reports (a directory is watched
\* recursively)
Under(root) ==
    CASE root = "matches" -> {"input"}
      [] root = "parent" -> {"created_input", "sibling"}
      [] root = CurrentDir -> Files
\* the field watched_paths of the session's FileWatcher
watched_paths == IF watcherAlive THEN PathsToWatch(pattern) ELSE {}
Observed(f) == \E root \in watched_paths : f \in Under(root)
\* FileWatcher::new returns Err: the pattern is rejected, or notify fails to
\* create the watcher or to install a watch
NewWatcherError(p) == IF PatternRejected(p) THEN "pattern_error" ELSE "notify_error"

\* the notifier's callback, called for a change to one of the given files (or
\* with an error of the notifier): tx.blocking_send(res) waits while the
\* channel is full
Emit(files, items) ==
    /\ Alive /\ watcherAlive
    /\ eventsSent < MaxEvents
    /\ Len(queue) < ChannelCapacity
    /\ \E f \in files : Observed(f)
    /\ \E item \in items : queue' = Append(queue, item)
    /\ eventsSent' = eventsSent + 1
    /\ UNCHANGED <<watcherAlive, watchersCreated, last_reload, last_exec_time, debounced>>
    /\ UNCHANGED <<cfgVars, coVars, fwVars, mpscVars, ctlVars, sigVars, cacheVars, envVars, runVars,
                   chanVars, coordVars, now>>
\* any change, or an error of the notifier
FileEvent == Emit(Files, StreamItems) /\ UNCHANGED burstVars
\* a change to a file that matches none of the task's patterns (or an error
\* of the notifier)
UnwatchedChange ==
    Emit({f \in Files : ~MatchesPattern(f)}, StreamItems) /\ UNCHANGED burstVars
\* the debounce window of the session's loop
Window == IF mode = "watch" THEN DebounceWatch ELSE DebounceRun
\* changes that come as one burst: each create, modify or remove is made less
\* than one debounce window after the first of them
BurstChange ==
    \E item \in StreamItems :
        /\ Emit(Files, {item})
        /\ IF ~Qualifies(item)
           THEN UNCHANGED burstVars
           ELSE /\ burstSize' = burstSize + 1
                /\ IF burstSize = 0
                   THEN burstStart' = now
                   ELSE now - burstStart < Window /\ UNCHANGED burstStart
\* the FileWatcher is dropped when the session's function returns
DropWatcher ==
    /\ watcherAlive' = FALSE /\ queue' = <<>>
    /\ UNCHANGED <<eventsSent, watchersCreated, last_reload, last_exec_time, debounced>>

\* time passes while a session waits in its loop
Tick ==
    /\ pc \in {"r_wloop", "r_rerun", "w_loop", "w_grace"}
    /\ now < MaxTime
    /\ now' = now + 1
    /\ UNCHANGED <<cfgVars, burstVars, coVars, fwVars, mpscVars, ctlVars, sigVars, cacheVars, envVars, runVars, chanVars,
                   watchVars, coordVars>>

\* ---- run: execute() of run.rs ---------------------------------------------
\* ctrlc::set_handler, then the task graph
R_Begin ==
    /\ pc = "start" /\ mode = "run"
    /\ handlerInstalled' = TRUE
    /\ pc' = "r_loop"
    /\ UNCHANGED <<task_idx, result, exitCode, listed>>
    /\ UNCHANGED <<ctrlc_should_exit_process, hpc, interrupts>>
    /\ UNCHANGED <<cfgVars, burstVars, coVars, fwVars, mpscVars, cacheVars, envVars, runVars, chanVars, watchVars,
                   coordVars, now>>

\* the for loop is over: Ok(())
R_LoopEnd ==
    /\ StepAwaited /\ task_idx > Len(order)
    /\ pc' = "done" /\ result' = "ok" /\ exitCode' = 0
    /\ UNCHANGED <<task_idx, listed>>
    /\ UNCHANGED <<cfgVars, burstVars, coVars, fwVars, mpscVars, sigVars, cacheVars, envVars, runVars, chanVars,
                   watchVars, coordVars, now>>

\* `continue` for an alias
R_SkipAlias ==
    /\ StepAwaited /\ task_idx <= Len(order)
    /\ ~IsExecutable(task_idx)
    /\ task_idx' = task_idx + 1
    /\ UNCHANGED <<pc, result, exitCode, listed>>
    /\ UNCHANGED <<cfgVars, burstVars, coVars, fwVars, mpscVars, sigVars, cacheVars, envVars, runVars, chanVars,
                   watchVars, coordVars, now>>

\* `continue` in dry-run mode, after the command was printed
R_DryRun ==
    /\ StepAwaited /\ task_idx <= Len(order)
    /\ IsExecutable(task_idx)
    /\ DryRunContinue
    /\ task_idx' = task_idx + 1
    /\ UNCHANGED <<pc, result, exitCode, listed>>
    /\ UNCHANGED <<cfgVars, burstVars, coVars, fwVars, mpscVars, sigVars, cacheVars, envVars, runVars, chanVars,
                   watchVars, coordVars, now>>

\* can_skip() answers Yes: `continue`
R_CacheHit ==
    /\ StepAwaited /\ task_idx <= Len(order)
    /\ IsExecutable(task_idx)
    /\ ~DryRunContinue
    /\ consulted' = consulted \cup {task_idx}
    /\ CanSkipYes(task_idx)
    /\ task_idx' = task_idx + 1
    /\ UNCHANGED <<pc, result, exitCode, listed>>
    /\ UNCHANGED <<saved, observedZero, endCause>>
    /\ UNCHANGED <<cfgVars, burstVars, coVars, fwVars, mpscVars, sigVars, envVars, runVars, chanVars,
                   watchVars, coordVars, now>>

\* can_skip() answers No: the environment is looked up or computed, the
\* toggle is turned off and the command is prepared
R_Prepare(t) ==
    /\ StepAwaited /\ task_idx <= Len(order) /\ t = task_idx
    /\ IsExecutable(t)
    /\ ~DryRunContinue
    /\ consulted' = consulted \cup {t}
    /\ ~CanSkipYes(t)
    /\ task_envs' = task_envs \cup {order[t].env}
    /\ envComputedFor' = IF order[t].env \in task_envs
                         THEN envComputedFor ELSE envComputedFor \cup {t}
    /\ ctrlc_should_exit_process' = FALSE
    /\ UNCHANGED <<handlerInstalled, hpc, interrupts>>
    /\ UNCHANGED <<saved, observedZero>>

\* execute_task() (or the initial run of execute_task_with_watched_files)
\* starts the command
R_StartTask ==
    /\ R_Prepare(task_idx)
    /\ runs' = Append(runs, NewRun(task_idx,
                 IF HasWatchedFiles(task_idx) THEN "initial" ELSE "plain"))
    /\ pc' = IF HasWatchedFiles(task_idx) THEN "r_init" ELSE "r_exec"
    /\ UNCHANGED <<task_idx, result, exitCode, listed, endCause>>
    /\ UNCHANGED <<task_handle, handleConsumed, killTriggered, was_cancelled>>
    /\ UNCHANGED <<cfgVars, burstVars, coVars, fwVars, mpscVars, chanVars, watchVars, coordVars, now>>

\* as_deno_script()? or working_directory()? fails: Err(err) is returned
R_ScriptError ==
    /\ R_Prepare(task_idx)
    /\ \E o \in ScriptOutcomes \ {"ok"} : endCause' = [endCause EXCEPT ![task_idx] = o]
    /\ ReturnErr
    /\ UNCHANGED task_idx
    /\ UNCHANGED <<cfgVars, burstVars, coVars, fwVars, mpscVars, runVars, chanVars, watchVars, coordVars, now>>

\* (mutant: the toggle stays off after the step)
R_StepOk_NoReset(t, cause) ==
    /\ endCause' = [endCause EXCEPT ![t] = cause]
    /\ saved' = saved \cup {t}
    /\ task_idx' = task_idx + 1
    /\ pc' = "r_loop"
    /\ UNCHANGED <<result, exitCode, listed>>
    /\ UNCHANGED <<handlerInstalled, ctrlc_should_exit_process, hpc, interrupts, consulted>>
\* Ok(_) of the step: the toggle is turned on again and the cache is saved
R_StepOk(t, cause) ==
    /\ endCause' = [endCause EXCEPT ![t] = cause]
    /\ ctrlc_should_exit_process' = TRUE
    /\ saved' = saved \cup {t}
    /\ task_idx' = task_idx + 1
    /\ pc' = "r_loop"
    /\ UNCHANGED <<result, exitCode, listed>>
    /\ UNCHANGED <<handlerInstalled, hpc, interrupts, consulted>>

\* the command of a plain task exits with a non-zero code
R_ExecFailed ==
    /\ pc \in {"r_exec", "r_init"}
    /\ \E code \in ExitCodes \ {0} :
         /\ runs' = Exited(Len(runs), code)
         /\ ExitNonZero(code)
    /\ endCause' = [endCause EXCEPT ![task_idx] = "failed"]
    /\ UNCHANGED <<task_idx, consulted, saved, observedZero>>
    /\ UNCHANGED <<task_handle, handleConsumed, killTriggered, was_cancelled>>
    /\ UNCHANGED <<cfgVars, burstVars, coVars, fwVars, mpscVars, sigVars, envVars, chanVars, watchVars, coordVars, now>>

\* the command of a plain task exits with code 0
R_ExecOk ==
    /\ pc = "r_exec"
    /\ runs' = Exited(Len(runs), 0)
    /\ observedZero' = observedZero \cup {task_idx}
    /\ R_StepOk(task_idx, "completed")
    /\ UNCHANGED <<task_handle, handleConsumed, killTriggered, was_cancelled>>
    /\ UNCHANGED <<cfgVars, burstVars, coVars, fwVars, mpscVars, envVars, chanVars, watchVars, coordVars, now>>

\* the initial run of a task with watched files exits with code 0: the session
\* attaches to SIGNAL_HANDLER and creates its FileWatcher
R_InitOk ==
    /\ pc = "r_init"
    /\ ~PatternRejected(pattern)
    /\ runs' = Exited(Len(runs), 0)
    /\ observedZero' = observedZero \cup {task_idx}
    /\ SetupSignalHandler
    /\ watcherAlive' = TRUE /\ queue' = <<>>
    /\ watchersCreated' = watchersCreated + 1
    /\ last_exec_time' = now
    /\ pc' = "r_wloop"
    /\ UNCHANGED <<task_idx, result, exitCode, listed>>
    /\ UNCHANGED <<consulted, saved, endCause, eventsSent, last_reload, debounced>>
    /\ UNCHANGED <<task_handle, handleConsumed, killTriggered, was_cancelled>>
    /\ UNCHANGED <<cfgVars, burstVars, coVars, fwVars, mpscVars, sigVars, envVars, chanVars, now>>

\* ... or FileWatcher::new fails: Err(InvalidWorkingDirectory), returned with
\* `?` after the session has attached
R_WatcherFails ==
    /\ pc = "r_init"
    /\ runs' = Exited(Len(runs), 0)
    /\ observedZero' = observedZero \cup {task_idx}
    /\ SetupSignalHandler
    /\ endCause' = [endCause EXCEPT ![task_idx] = NewWatcherError(pattern)]
    /\ ReturnErr
    /\ UNCHANGED <<task_idx, consulted, saved>>
    /\ UNCHANGED <<task_handle, handleConsumed, killTriggered, was_cancelled>>
    /\ UNCHANGED <<cfgVars, burstVars, coVars, fwVars, mpscVars, sigVars, envVars, chanVars, watchVars, now>>

\* the watcher_result future completes with Ok(()): cleanup, Ok(())
R_SessionOk(cause) ==
    /\ CleanupSignalHandler
    /\ DropWatcher
    /\ R_StepOk(task_idx, cause)

\* next_event() yields an event that is not a change: `continue`
R_EventOther ==
    /\ pc = "r_wloop" /\ queue # <<>>
    /\ Head(queue) \in EventKinds
    /\ ~Qualifies(Head(queue))
    /\ queue' = Tail(queue)
    /\ UNCHANGED <<watcherAlive, eventsSent, watchersCreated, last_reload,
                   last_exec_time, debounced>>
    /\ UNCHANGED <<cfgVars, burstVars, coVars, fwVars, mpscVars, ctlVars, sigVars, cacheVars, envVars, runVars, chanVars,
                   coordVars, now>>

\* next_event() yields a change inside the debounce window: `continue`
R_EventDebounced ==
    /\ pc = "r_wloop" /\ queue # <<>>
    /\ Qualifies(Head(queue))
    /\ DebouncedRun(now, last_exec_time)
    /\ queue' = Tail(queue)
    /\ debounced' = debounced + 1
    /\ UNCHANGED <<watcherAlive, eventsSent, watchersCreated, last_reload, last_exec_time>>
    /\ UNCHANGED <<cfgVars, burstVars, coVars, fwVars, mpscVars, ctlVars, sigVars, cacheVars, envVars, runVars, chanVars,
                   coordVars, now>>

\* (mutant: the re-run is spawned and the loop goes on reading events)
R_EventRerun_Spawned ==
    /\ pc = "r_wloop" /\ queue # <<>>
    /\ Qualifies(Head(queue))
    /\ ~DebouncedRun(now, last_exec_time)
    /\ queue' = Tail(queue)
    /\ last_exec_time' = now
    /\ runs' = Append(runs, NewRun(task_idx, "rerun"))
    /\ UNCHANGED <<pc, task_idx, result, exitCode, listed>>
    /\ UNCHANGED <<watcherAlive, eventsSent, watchersCreated, last_reload, debounced>>
    /\ UNCHANGED <<task_handle, handleConsumed, killTriggered, was_cancelled>>
    /\ UNCHANGED <<cfgVars, burstVars, coVars, fwVars, mpscVars, sigVars, cacheVars, envVars, chanVars, coordVars, now>>
\* next_event() yields a change outside the debounce window: the command is
\* executed again, inline
R_EventRerun ==
    /\ pc = "r_wloop" /\ queue # <<>>
    /\ Qualifies(Head(queue))
    /\ ~DebouncedRun(now, last_exec_time)
    /\ queue' = Tail(queue)
    /\ last_exec_time' = now
    /\ runs' = Append(runs, NewRun(task_idx, "rerun"))
    /\ pc' = "r_rerun"
    /\ UNCHANGED <<task_idx, result, exitCode, listed>>
    /\ UNCHANGED <<watcherAlive, eventsSent, watchersCreated, last_reload, debounced>>
    /\ UNCHANGED <<task_handle, handleConsumed, killTriggered, was_cancelled>>
    /\ UNCHANGED <<cfgVars, burstVars, coVars, fwVars, mpscVars, sigVars, cacheVars, envVars, chanVars, coordVars, now>>

\* execute_task() called again returns a typed error before any command is
\* started (working_directory()? fails): an attempt, not a run
FailedAttempt(t) ==
    [task |-> t, kind |-> "attempt", st |-> "InvalidWorkingDirectory", code |-> 0,
     token |-> 0]
\* next_event() yields a change outside the debounce window and the re-run
\* fails with a typed error: `let _ =` drops it, then the loop asks
\* is_cancellation_requested()
R_RerunScriptError ==
    /\ pc = "r_wloop" /\ queue # <<>>
    /\ Qualifies(Head(queue))
    /\ ~DebouncedRun(now, last_exec_time)
    /\ runs' = Append(runs, FailedAttempt(task_idx))
    /\ IF cancellation_requested
       THEN /\ R_SessionOk("cancel")
            /\ UNCHANGED observedZero
       ELSE /\ queue' = Tail(queue)
            /\ last_exec_time' = now
            /\ UNCHANGED <<watcherAlive, eventsSent, watchersCreated, last_reload, debounced>>
            /\ UNCHANGED <<ctlVars, sigVars, cacheVars, coordVars>>
    /\ UNCHANGED <<task_handle, handleConsumed, killTriggered, was_cancelled>>
    /\ UNCHANGED <<cfgVars, burstVars, coVars, fwVars, mpscVars, envVars, chanVars, now>>

\* (mutant: a non-zero exit code of a re-run is handled like that of the
\* initial run)
R_RerunDone_Propagates ==
    /\ pc = "r_rerun"
    /\ \E code \in ExitCodes :
         /\ runs' = Exited(Len(runs), code)
         /\ IF code # 0
            THEN /\ ExitNonZero(code)
                 /\ endCause' = [endCause EXCEPT ![task_idx] = "failed"]
                 /\ UNCHANGED <<task_idx, consulted, saved, observedZero>>
                 /\ UNCHANGED <<sigVars, watchVars, coordVars>>
            ELSE /\ pc' = "r_wloop"
                 /\ UNCHANGED <<task_idx, result, exitCode, listed>>
                 /\ UNCHANGED <<sigVars, cacheVars, watchVars, coordVars>>
    /\ UNCHANGED <<task_handle, handleConsumed, killTriggered, was_cancelled>>
    /\ UNCHANGED <<cfgVars, burstVars, coVars, fwVars, mpscVars, envVars, chanVars, now>>
\* the re-run returns (any exit code): `let _ =` drops the result, then the
\* loop asks is_cancellation_requested()
R_RerunDone ==
    /\ pc = "r_rerun"
    /\ \E code \in ExitCodes : runs' = Exited(Len(runs), code)
    /\ IF cancellation_requested
       THEN /\ R_SessionOk("cancel")
            /\ UNCHANGED observedZero
       ELSE /\ pc' = "r_wloop"
            /\ UNCHANGED <<task_idx, result, exitCode, listed>>
            /\ UNCHANGED <<sigVars, cacheVars, watchVars, coordVars>>
    /\ UNCHANGED <<task_handle, handleConsumed, killTriggered, was_cancelled>>
    /\ UNCHANGED <<cfgVars, burstVars, coVars, fwVars, mpscVars, envVars, chanVars, now>>

\* next_event() yields Err(e): the loop breaks, cleanup, Err(..) is returned
R_EventError ==
    /\ pc = "r_wloop" /\ queue # <<>>
    /\ Head(queue) = "Error"
    /\ CleanupSignalHandler
    /\ DropWatcher
    /\ endCause' = [endCause EXCEPT ![task_idx] = "watch_error"]
    /\ ReturnErr
    /\ UNCHANGED <<task_idx, consulted, saved, observedZero>>
    /\ UNCHANGED <<cfgVars, burstVars, coVars, fwVars, mpscVars, sigVars, envVars, runVars, chanVars, now>>

\* the wait_for_cancellation() branch of select! wins: the watcher_result
\* future is dropped (with a re-run it was awaiting), cleanup, Ok(())
R_Cancelled ==
    /\ pc \in {"r_wloop", "r_rerun"}
    /\ cancellation_requested
    /\ runs' = IF pc = "r_rerun"
               THEN [runs EXCEPT ![Len(runs)].st = "dropped"] ELSE runs
    /\ R_SessionOk("cancel")
    /\ UNCHANGED observedZero
    /\ UNCHANGED <<task_handle, handleConsumed, killTriggered, was_cancelled>>
    /\ UNCHANGED <<cfgVars, burstVars, coVars, fwVars, mpscVars, envVars, chanVars, now>>

\* SIGINT in run: the ctrlc handler exits the process if the toggle is on (the
\* default disposition does before the handler is installed)
R_InterruptExits ==
    /\ Alive /\ mode = "run" /\ interrupts < MaxInterrupts
    /\ ~handlerInstalled \/ ctrlc_should_exit_process
    /\ interrupts' = interrupts + 1
    /\ pc' = "exited" /\ result' = "sigint" /\ exitCode' = SigintExit
    /\ UNCHANGED <<task_idx, listed>>
    /\ UNCHANGED <<handlerInstalled, ctrlc_should_exit_process, hpc>>
    /\ UNCHANGED <<cfgVars, burstVars, coVars, fwVars, mpscVars, cacheVars, envVars, runVars, chanVars, watchVars,
                   coordVars, now>>

\* SIGINT in run while the toggle is off: nothing but the listener, if one
\* is waiting, receives it
R_InterruptKept ==
    /\ Alive /\ mode = "run" /\ interrupts < MaxInterrupts
    /\ handlerInstalled /\ ~ctrlc_should_exit_process
    /\ interrupts' = interrupts + 1
    /\ listener' = IF listener = "armed" THEN "fired" ELSE listener
    /\ UNCHANGED <<signalHandlerSet, cancellation_requested, active_watchers>>
    /\ UNCHANGED <<handlerInstalled, ctrlc_should_exit_process, hpc>>
    /\ UNCHANGED <<cfgVars, burstVars, coVars, fwVars, mpscVars, ctlVars, cacheVars, envVars, runVars, chanVars,
                   watchVars, now>>

RunNext ==
    \/ R_Begin \/ R_LoopEnd \/ R_SkipAlias \/ R_DryRun \/ R_CacheHit
    \/ R_StartTask \/ R_ScriptError \/ R_ExecFailed \/ R_ExecOk
    \/ R_InitOk \/ R_WatcherFails
    \/ R_EventOther \/ R_EventDebounced \/ R_EventRerun \/ R_RerunScriptError
    \/ R_RerunDone \/ R_EventError \/ R_Cancelled
    \/ R_InterruptExits \/ R_InterruptKept \/ ListenerSetsFlag

\* ---- watch: execute() of watch.rs -----------------------------------------
\* the dry-run test of watch, after the handler is installed
W_DryRunReturn == dry_run
\* the test that lets the completion of the task end the session with an error
W_FailsSession(code) == code # 0 /\ ~was_cancelled
\* the watch loop polls task_handle in every iteration of select!
W_HandlePolled == pc = "w_loop"

\* more than one node in the topological order: the message that watch mode
\* supports single tasks only, Ok(())
W_RejectMulti ==
    /\ pc = "start" /\ mode = "watch"
    /\ Len(order) > 1
    /\ endCause' = [t \in DOMAIN order |-> "single_task_only"]
    /\ pc' = "done" /\ result' = "ok" /\ exitCode' = 0
    /\ UNCHANGED <<task_idx, listed, consulted, saved, observedZero>>
    /\ UNCHANGED <<cfgVars, burstVars, coVars, fwVars, mpscVars, sigVars, envVars, runVars, chanVars,
                   watchVars, coordVars, now>>

\* the single task is an alias: the message, Ok(())
W_RejectAlias ==
    /\ pc = "start" /\ mode = "watch"
    /\ Len(order) = 1 /\ ~IsExecutable(1)
    /\ endCause' = [t \in DOMAIN order |-> "not_executable"]
    /\ pc' = "done" /\ result' = "ok" /\ exitCode' = 0
    /\ UNCHANGED <<task_idx, listed, consulted, saved, observedZero>>
    /\ UNCHANGED <<cfgVars, burstVars, coVars, fwVars, mpscVars, sigVars, envVars, runVars, chanVars,
                   watchVars, coordVars, now>>

\* (mutant: a graph of several tasks is let through)
W_Install_AnyOrder ==
    /\ pc = "start" /\ mode = "watch"
    /\ IsExecutable(1)
    /\ handlerInstalled' = TRUE
    /\ pc' = "w_installed"
    /\ UNCHANGED <<task_idx, result, exitCode, listed>>
    /\ UNCHANGED <<ctrlc_should_exit_process, hpc, interrupts>>
    /\ UNCHANGED <<cfgVars, burstVars, coVars, fwVars, mpscVars, cacheVars, envVars, runVars, chanVars, watchVars,
                   coordVars, now>>
\* the broadcast channel is created (its first receiver is dropped at once)
\* and the Ctrl-C handler is installed
W_Install ==
    /\ pc = "start" /\ mode = "watch"
    /\ Len(order) = 1 /\ IsExecutable(1)
    /\ handlerInstalled' = TRUE
    /\ pc' = "w_installed"
    /\ UNCHANGED <<task_idx, result, exitCode, listed>>
    /\ UNCHANGED <<ctrlc_should_exit_process, hpc, interrupts>>
    /\ UNCHANGED <<cfgVars, burstVars, coVars, fwVars, mpscVars, cacheVars, envVars, runVars, chanVars, watchVars,
                   coordVars, now>>

\* dry-run: the command is printed, Ok(())
W_DryRun ==
    /\ pc = "w_installed"
    /\ W_DryRunReturn
    /\ pc' = "done" /\ result' = "ok" /\ exitCode' = 0
    /\ UNCHANGED <<task_idx, listed>>
    /\ UNCHANGED <<cfgVars, burstVars, coVars, fwVars, mpscVars, sigVars, cacheVars, envVars, runVars, chanVars,
                   watchVars, coordVars, now>>

\* (mutant: the cache record is saved on a hit)
W_CacheHit_Saves ==
    /\ pc = "w_installed"
    /\ ~W_DryRunReturn
    /\ consulted' = consulted \cup {1}
    /\ CanSkipYes(1)
    /\ saved' = saved \cup {1}
    /\ pc' = "done" /\ result' = "ok" /\ exitCode' = 0
    /\ UNCHANGED <<task_idx, listed>>
    /\ UNCHANGED <<observedZero, endCause>>
    /\ UNCHANGED <<cfgVars, burstVars, coVars, fwVars, mpscVars, sigVars, envVars, runVars, chanVars,
                   watchVars, coordVars, now>>
\* can_skip() answers Yes: Ok(())
W_CacheHit ==
    /\ pc = "w_installed"
    /\ ~W_DryRunReturn
    /\ consulted' = consulted \cup {1}
    /\ CanSkipYes(1)
    /\ pc' = "done" /\ result' = "ok" /\ exitCode' = 0
    /\ UNCHANGED <<task_idx, listed>>
    /\ UNCHANGED <<saved, observedZero, endCause>>
    /\ UNCHANGED <<cfgVars, burstVars, coVars, fwVars, mpscVars, sigVars, envVars, runVars, chanVars,
                   watchVars, coordVars, now>>

\* can_skip() answers No: the environment is computed and the toggle is
\* turned off
W_Prepare ==
    /\ pc = "w_installed"
    /\ ~W_DryRunReturn
    /\ consulted' = consulted \cup {1}
    /\ ~CanSkipYes(1)
    /\ task_envs' = task_envs \cup {order[1].env}
    /\ envComputedFor' = envComputedFor \cup {1}
    /\ ctrlc_should_exit_process' = FALSE
    /\ pc' = "w_toggled"
    /\ UNCHANGED <<task_idx, result, exitCode, listed>>
    /\ UNCHANGED <<handlerInstalled, hpc, interrupts>>
    /\ UNCHANGED <<saved, observedZero, endCause>>
    /\ UNCHANGED <<cfgVars, burstVars, coVars, fwVars, mpscVars, runVars, chanVars, watchVars, coordVars, now>>

\* execute_task_with_watched_files() of watch.rs begins: it subscribes to the
\* channel and turns the toggle off
W_Subscribe ==
    /\ pc = "w_toggled"
    /\ subscribed' = TRUE
    /\ ctrlc_should_exit_process' = FALSE
    /\ UNCHANGED <<handlerInstalled, hpc, interrupts, cancelPending>>

\* as_deno_script()? or working_directory()? fails: Err(err) is returned
W_ScriptError ==
    /\ W_Subscribe
    /\ \E o \in ScriptOutcomes \ {"ok"} : endCause' = [endCause EXCEPT ![1] = o]
    /\ ReturnErr
    /\ UNCHANGED <<task_idx, consulted, saved, observedZero>>
    /\ UNCHANGED <<cfgVars, burstVars, coVars, fwVars, mpscVars, envVars, runVars, watchVars, coordVars, now>>

\* the initial run is spawned with its own kill signal
W_SpawnInitial ==
    /\ W_Subscribe
    /\ runs' = Append(runs, NewRun(1, "initial"))
    /\ task_handle' = Len(runs) + 1
    /\ handleConsumed' = FALSE
    /\ was_cancelled' = FALSE
    /\ UNCHANGED killTriggered

\* no inputs: the session waits for the cancellation or for the run
W_StartNoInput ==
    /\ ~HasWatchedFiles(1)
    /\ W_SpawnInitial
    /\ pc' = "w_noinput"
    /\ UNCHANGED <<task_idx, result, exitCode, listed>>
    /\ UNCHANGED <<cfgVars, burstVars, coVars, fwVars, mpscVars, cacheVars, envVars, watchVars, coordVars, now>>

\* (mutant: the timestamp starts at the time of the session start)
W_StartWatching_NoHeadStart ==
    /\ HasWatchedFiles(1)
    /\ ~PatternRejected(pattern)
    /\ W_SpawnInitial
    /\ watcherAlive' = TRUE /\ queue' = <<>>
    /\ watchersCreated' = watchersCreated + 1
    /\ last_reload' = now
    /\ pc' = "w_loop"
    /\ UNCHANGED <<eventsSent, last_exec_time, debounced>>
    /\ UNCHANGED <<task_idx, result, exitCode, listed>>
    /\ UNCHANGED <<cfgVars, burstVars, coVars, fwVars, mpscVars, cacheVars, envVars, coordVars, now>>
\* inputs: the FileWatcher is created, last_reload is set one debounce window
\* in the past and the watch loop is entered
W_StartWatching ==
    /\ HasWatchedFiles(1)
    /\ ~PatternRejected(pattern)
    /\ W_SpawnInitial
    /\ watcherAlive' = TRUE /\ queue' = <<>>
    /\ watchersCreated' = watchersCreated + 1
    /\ last_reload' = now - DebounceWatch
    /\ pc' = "w_loop"
    /\ UNCHANGED <<eventsSent, last_exec_time, debounced>>
    /\ UNCHANGED <<task_idx, result, exitCode, listed>>
    /\ UNCHANGED <<cfgVars, burstVars, coVars, fwVars, mpscVars, cacheVars, envVars, coordVars, now>>

\* inputs, and FileWatcher::new fails: Err(InvalidWorkingDirectory) is returned
\* before the spawned run was ever polled
W_WatcherFails ==
    /\ HasWatchedFiles(1)
    /\ W_Subscribe
    /\ endCause' = [endCause EXCEPT ![1] = NewWatcherError(pattern)]
    /\ ReturnErr
    /\ UNCHANGED <<task_idx, consulted, saved, observedZero>>
    /\ UNCHANGED <<cfgVars, burstVars, coVars, fwVars, mpscVars, envVars, runVars, watchVars, coordVars, now>>

\* a spawned command exits by itself, while the LocalSet is driven
W_RunExit ==
    /\ mode = "watch" /\ pc \in {"w_noinput", "w_loop", "w_grace"}
    /\ \E r \in Running : \E code \in ExitCodes : runs' = Exited(r, code)
    /\ UNCHANGED <<task_handle, handleConsumed, killTriggered, was_cancelled>>
    /\ UNCHANGED <<cfgVars, burstVars, coVars, fwVars, mpscVars, ctlVars, sigVars, cacheVars, envVars, chanVars,
                   watchVars, coordVars, now>>

\* the session returns Ok(()): the toggle is turned on, the receiver and the
\* watcher are dropped
W_ReturnOk(cause) ==
    /\ endCause' = [endCause EXCEPT ![1] = cause]
    /\ ctrlc_should_exit_process' = TRUE
    /\ subscribed' = FALSE
    /\ pc' = "w_after"
    /\ UNCHANGED <<task_idx, result, exitCode, listed>>
    /\ UNCHANGED <<handlerInstalled, hpc, interrupts>>
    /\ UNCHANGED <<consulted, saved>>

\* no inputs, cancel_rx.recv() is ready: was_cancelled is set, Ok(())
W_NoInputCancel ==
    /\ pc = "w_noinput" /\ cancelPending > 0
    /\ cancelPending' = cancelPending - 1
    /\ was_cancelled' = TRUE
    /\ W_ReturnOk("cancel")
    /\ UNCHANGED <<runs, task_handle, handleConsumed, killTriggered, observedZero>>
    /\ UNCHANGED <<cfgVars, burstVars, coVars, fwVars, mpscVars, envVars, watchVars, coordVars, now>>

\* (mutant: a non-zero code of the only run is taken for success)
W_NoInputFailed_Ok ==
    /\ pc = "w_noinput"
    /\ runs[task_handle].st = "exited" /\ runs[task_handle].code # 0
    /\ handleConsumed' = TRUE
    /\ W_ReturnOk("failed")
    /\ UNCHANGED <<runs, task_handle, killTriggered, was_cancelled, cancelPending,
                   observedZero>>
    /\ UNCHANGED <<cfgVars, burstVars, coVars, fwVars, mpscVars, envVars, watchVars, coordVars, now>>
\* no inputs, the task handle is ready with a non-zero code: Err(NonZeroExitCode)
W_NoInputFailed ==
    /\ pc = "w_noinput"
    /\ runs[task_handle].st = "exited" /\ runs[task_handle].code # 0
    /\ handleConsumed' = TRUE
    /\ endCause' = [endCause EXCEPT ![1] = "failed"]
    /\ ExitNonZero(runs[task_handle].code)
    /\ UNCHANGED <<task_idx, consulted, saved, observedZero>>
    /\ UNCHANGED <<runs, task_handle, killTriggered, was_cancelled>>
    /\ UNCHANGED <<cfgVars, burstVars, coVars, fwVars, mpscVars, sigVars, envVars, chanVars, watchVars, coordVars, now>>

\* no inputs, the task handle is ready with code 0: Ok(())
W_NoInputOk ==
    /\ pc = "w_noinput"
    /\ runs[task_handle].st = "exited" /\ runs[task_handle].code = 0
    /\ handleConsumed' = TRUE
    /\ observedZero' = observedZero \cup {1}
    /\ W_ReturnOk("completed")
    /\ UNCHANGED <<runs, task_handle, killTriggered, was_cancelled, cancelPending>>
    /\ UNCHANGED <<cfgVars, burstVars, coVars, fwVars, mpscVars, envVars, watchVars, coordVars, now>>

\* (mutant: the cancel branch does not leave the loop)
W_Cancel_Continues ==
    /\ pc = "w_loop" /\ cancelPending > 0
    /\ cancelPending' = cancelPending - 1
    /\ was_cancelled' = TRUE
    /\ endCause' = [endCause EXCEPT ![1] = "cancel"]
    /\ UNCHANGED <<consulted, saved, observedZero, subscribed>>
    /\ UNCHANGED <<runs, task_handle, handleConsumed, killTriggered>>
    /\ UNCHANGED <<cfgVars, burstVars, coVars, fwVars, mpscVars, ctlVars, sigVars, envVars, watchVars,
                   coordVars, now>>
\* watch loop, cancel_rx.recv() is ready: was_cancelled is set, `break`
W_Cancel ==
    /\ pc = "w_loop" /\ cancelPending > 0
    /\ cancelPending' = cancelPending - 1
    /\ was_cancelled' = TRUE
    /\ DropWatcher
    /\ W_ReturnOk("cancel")
    /\ UNCHANGED <<runs, task_handle, handleConsumed, killTriggered, observedZero>>
    /\ UNCHANGED <<cfgVars, burstVars, coVars, fwVars, mpscVars, envVars, coordVars, now>>

\* watch loop, the task handle is ready: a non-zero code ends the session with
\* Err(NonZeroExitCode), code 0 leaves it in the loop
W_TaskDone ==
    /\ W_HandlePolled /\ ~handleConsumed
    /\ runs[task_handle].st = "exited"
    /\ handleConsumed' = TRUE
    /\ IF W_FailsSession(runs[task_handle].code)
       THEN /\ endCause' = [endCause EXCEPT ![1] = "failed"]
            /\ ExitNonZero(runs[task_handle].code)
            /\ UNCHANGED <<task_idx, observedZero>>
       ELSE /\ observedZero' = IF runs[task_handle].code = 0
                               THEN observedZero \cup {1} ELSE observedZero
            /\ UNCHANGED <<ctlVars, endCause>>
    /\ UNCHANGED <<consulted, saved>>
    /\ UNCHANGED <<runs, task_handle, killTriggered, was_cancelled>>
    /\ UNCHANGED <<cfgVars, burstVars, coVars, fwVars, mpscVars, sigVars, envVars, chanVars, watchVars, coordVars, now>>

\* watch loop, the next select! polls the handle whose result was already
\* taken: a JoinHandle polled after completion panics
W_PollConsumed ==
    /\ W_HandlePolled /\ handleConsumed
    /\ pc' = "panicked" /\ result' = "panic" /\ exitCode' = 101
    /\ UNCHANGED <<task_idx, listed>>
    /\ UNCHANGED <<cfgVars, burstVars, coVars, fwVars, mpscVars, sigVars, cacheVars, envVars, runVars, chanVars,
                   watchVars, coordVars, now>>

\* watch loop, an event that is not a change: `continue`
W_EventOther ==
    /\ pc = "w_loop" /\ queue # <<>>
    /\ Head(queue) \in EventKinds
    /\ ~Qualifies(Head(queue))
    /\ queue' = Tail(queue)
    /\ UNCHANGED <<watcherAlive, eventsSent, watchersCreated, last_reload,
                   last_exec_time, debounced>>
    /\ UNCHANGED <<cfgVars, burstVars, coVars, fwVars, mpscVars, ctlVars, sigVars, cacheVars, envVars, runVars, chanVars,
                   coordVars, now>>

\* watch loop, a change inside the debounce window: logged and ignored
W_EventDebounced ==
    /\ pc = "w_loop" /\ queue # <<>>
    /\ Qualifies(Head(queue))
    /\ ~AcceptedWatch(now, last_reload)
    /\ queue' = Tail(queue)
    /\ debounced' = debounced + 1
    /\ UNCHANGED <<watcherAlive, eventsSent, watchersCreated, last_reload, last_exec_time>>
    /\ UNCHANGED <<cfgVars, burstVars, coVars, fwVars, mpscVars, ctlVars, sigVars, cacheVars, envVars, runVars, chanVars,
                   coordVars, now>>

\* watch loop, a change outside the debounce window: last_reload is set,
\* was_cancelled is set and the loop sleeps for the grace period
W_EventAccepted ==
    /\ pc = "w_loop" /\ queue # <<>>
    /\ Qualifies(Head(queue))
    /\ AcceptedWatch(now, last_reload)
    /\ queue' = Tail(queue)
    /\ last_reload' = now
    /\ was_cancelled' = TRUE
    /\ pc' = "w_grace"
    /\ UNCHANGED <<task_idx, result, exitCode, listed>>
    /\ UNCHANGED <<watcherAlive, eventsSent, watchersCreated, last_exec_time, debounced>>
    /\ UNCHANGED <<runs, task_handle, handleConsumed, killTriggered>>
    /\ UNCHANGED <<cfgVars, burstVars, coVars, fwVars, mpscVars, sigVars, cacheVars, envVars, chanVars, coordVars, now>>

\* (mutant: the session keeps polling the handle of the run it replaced)
W_Restart_KeepsHandle ==
    /\ pc = "w_grace"
    /\ now >= last_reload + GraceSleep
    /\ was_cancelled' = FALSE
    /\ runs' = Append(runs, NewRun(1, "restart"))
    /\ pc' = "w_loop"
    /\ UNCHANGED <<task_handle, handleConsumed, killTriggered>>
    /\ UNCHANGED <<task_idx, result, exitCode, listed>>
    /\ UNCHANGED <<cfgVars, burstVars, coVars, fwVars, mpscVars, sigVars, cacheVars, envVars, chanVars, watchVars,
                   coordVars, now>>
\* the grace sleep is over: a new kill signal is created, was_cancelled is
\* reset and the command is spawned again; the old handle is overwritten
W_Restart ==
    /\ pc = "w_grace"
    /\ now >= last_reload + GraceSleep
    /\ was_cancelled' = FALSE
    /\ runs' = Append(runs, NewRun(1, "restart"))
    /\ task_handle' = Len(runs) + 1
    /\ handleConsumed' = FALSE
    /\ pc' = "w_loop"
    /\ UNCHANGED killTriggered
    /\ UNCHANGED <<task_idx, result, exitCode, listed>>
    /\ UNCHANGED <<cfgVars, burstVars, coVars, fwVars, mpscVars, sigVars, cacheVars, envVars, chanVars, watchVars,
                   coordVars, now>>

\* (mutant: the loop goes on after an error of the stream)
W_EventError_Continues ==
    /\ pc = "w_loop" /\ queue # <<>>
    /\ Head(queue) = "Error"
    /\ queue' = Tail(queue)
    /\ endCause' = [endCause EXCEPT ![1] = "watch_error"]
    /\ UNCHANGED <<watcherAlive, eventsSent, watchersCreated, last_reload,
                   last_exec_time, debounced>>
    /\ UNCHANGED <<consulted, saved, observedZero>>
    /\ UNCHANGED <<cfgVars, burstVars, coVars, fwVars, mpscVars, ctlVars, sigVars, envVars, runVars,
                   chanVars, coordVars, now>>
\* watch loop, the stream yields Err(e): `break`, Ok(())
W_EventError ==
    /\ pc = "w_loop" /\ queue # <<>>
    /\ Head(queue) = "Error"
    /\ DropWatcher
    /\ W_ReturnOk("watch_error")
    /\ UNCHANGED <<cancelPending, observedZero>>
    /\ UNCHANGED <<cfgVars, burstVars, coVars, fwVars, mpscVars, envVars, runVars, coordVars, now>>

\* back in execute(): Ok(_), the toggle is turned on, save_cache, Ok(())
W_Finish ==
    /\ pc = "w_after"
    /\ ctrlc_should_exit_process' = TRUE
    /\ saved' = saved \cup {1}
    /\ pc' = "done" /\ result' = "ok" /\ exitCode' = 0
    /\ UNCHANGED <<task_idx, listed>>
    /\ UNCHANGED <<handlerInstalled, hpc, interrupts>>
    /\ UNCHANGED <<consulted, observedZero, endCause>>
    /\ UNCHANGED <<cfgVars, burstVars, coVars, fwVars, mpscVars, envVars, runVars, chanVars, watchVars, coordVars, now>>

\* SIGINT in watch before the handler is installed: the default disposition
W_InterruptKills ==
    /\ Alive /\ mode = "watch" /\ interrupts < MaxInterrupts
    /\ ~handlerInstalled
    /\ interrupts' = interrupts + 1
    /\ pc' = "exited" /\ result' = "sigint" /\ exitCode' = SigintExit
    /\ UNCHANGED <<task_idx, listed>>
    /\ UNCHANGED <<handlerInstalled, ctrlc_should_exit_process, hpc>>
    /\ UNCHANGED <<cfgVars, burstVars, coVars, fwVars, mpscVars, cacheVars, envVars, runVars, chanVars, watchVars,
                   coordVars, now>>

\* SIGINT in watch: the handler sends () on the channel (an error, dropped
\* with `let _`, when no receiver is subscribed) and goes to sleep
W_Interrupt ==
    /\ Alive /\ mode = "watch" /\ interrupts < MaxInterrupts
    /\ handlerInstalled /\ hpc = "idle"
    /\ interrupts' = interrupts + 1
    /\ cancelPending' = IF subscribed THEN cancelPending + 1 ELSE cancelPending
    /\ hpc' = "sleeping"
    /\ UNCHANGED <<handlerInstalled, ctrlc_should_exit_process, subscribed>>
    /\ UNCHANGED <<cfgVars, burstVars, coVars, fwVars, mpscVars, ctlVars, cacheVars, envVars, runVars, watchVars,
                   coordVars, now>>

\* the handler wakes up and finds the toggle on: exit_process_on_sigint()
W_HandlerExits ==
    /\ Alive /\ hpc = "sleeping"
    /\ ctrlc_should_exit_process
    /\ hpc' = "idle"
    /\ pc' = "exited" /\ result' = "sigint" /\ exitCode' = SigintExit
    /\ UNCHANGED <<task_idx, listed>>
    /\ UNCHANGED <<handlerInstalled, ctrlc_should_exit_process, interrupts>>
    /\ UNCHANGED <<cfgVars, burstVars, coVars, fwVars, mpscVars, cacheVars, envVars, runVars, chanVars, watchVars,
                   coordVars, now>>

\* the handler wakes up and finds the toggle off: it returns
W_HandlerReturns ==
    /\ Alive /\ hpc = "sleeping"
    /\ ~ctrlc_should_exit_process
    /\ hpc' = "idle"
    /\ UNCHANGED <<handlerInstalled, ctrlc_should_exit_process, interrupts>>
    /\ UNCHANGED <<cfgVars, burstVars, coVars, fwVars, mpscVars, ctlVars, cacheVars, envVars, runVars, chanVars,
                   watchVars, coordVars, now>>

WatchNext ==
    \/ W_RejectMulti \/ W_RejectAlias \/ W_Install \/ W_DryRun \/ W_CacheHit
    \/ W_Prepare \/ W_ScriptError \/ W_StartNoInput \/ W_StartWatching
    \/ W_WatcherFails \/ W_RunExit
    \/ W_NoInputCancel \/ W_NoInputFailed \/ W_NoInputOk
    \/ W_Cancel \/ W_TaskDone \/ W_PollConsumed
    \/ W_EventOther \/ W_EventDebounced \/ W_EventAccepted \/ W_Restart \/ W_EventError
    \/ W_Finish
    \/ W_InterruptKills \/ W_Interrupt \/ W_HandlerExits \/ W_HandlerReturns

Next == RunNext \/ WatchNext \/ FileEvent \/ Tick

Spec == Init /\ [][Next]_vars

\* the run command alone, and the watch command alone
RunInit == Init /\ mode = "run"
RunOnlyNext == RunNext \/ FileEvent \/ Tick
SpecRun == RunInit /\ [][RunOnlyNext]_vars
WatchInit == Init /\ mode = "watch"
\* the scheduling of a run invocation: the runtime keeps polling the step's
\* future and the spawned listener, wait_for_cancellation() wakes up every
\* 100 ms, and the task's command is taken to terminate
RunSteps ==
    \/ R_Begin \/ R_LoopEnd \/ R_SkipAlias \/ R_DryRun \/ R_CacheHit
    \/ R_StartTask \/ R_ScriptError
    \/ R_EventOther \/ R_EventDebounced \/ R_EventRerun \/ R_RerunScriptError
    \/ R_EventError
RunFairness ==
    /\ WF_vars(RunSteps)
    /\ WF_vars(R_ExecFailed \/ R_ExecOk \/ R_InitOk \/ R_WatcherFails)
    /\ WF_vars(R_RerunDone)
    /\ WF_vars(ListenerSetsFlag)
    /\ WF_vars(R_Cancelled)
SpecRunFair == RunInit /\ [][RunOnlyNext]_vars /\ RunFairness

WatchOnlyNext == WatchNext \/ FileEvent \/ Tick
SpecWatch == WatchInit /\ [][WatchOnlyNext]_vars

\* the changes of one burst only, and changes to unwatched files only
BurstNext == RunNext \/ WatchNext \/ BurstChange \/ Tick
SpecBurst == Init /\ [][BurstNext]_vars
UnwatchedInit ==
    InitProg(PatternKinds) /\ CoInit /\ FwInit({<<>>}) /\ MpscInit /\ mode = "watch"
UnwatchedNext == WatchNext \/ UnwatchedChange \/ Tick
SpecUnwatched == UnwatchedInit /\ [][UnwatchedNext]_vars

\* ---- SIGNAL_HANDLER with sessions that run concurrently --------------------
\* SignalState as the first caller of setup_signal_handler() creates it
NewSignalState == [cancellation_requested |-> FALSE, active_watchers |-> 1]
\* (mutant: a later caller does not count itself)
Attach_NoCount(h) == h
\* state.active_watchers += 1, under the lock
Attach(h) == [h EXCEPT !.active_watchers = @ + 1]
\* state.active_watchers -= 1, under the lock
Detach(h) == [h EXCEPT !.active_watchers = @ - 1]
\* the sessions that have attached to a state and not yet detached from it
AttachedTo(k) == {s \in Sessions : hold[s] = k /\ spc[s] \in {"watching", "leaving"}}

\* setup_signal_handler(): SIGNAL_HANDLER.get() is Some, the caller locks the
\* state and counts itself; or it is None
S_Get(s) ==
    /\ spc[s] = "idle"
    /\ IF signalHandlerCell # 0
       THEN /\ handlers' = [handlers EXCEPT ![signalHandlerCell] = Attach(@)]
            /\ hold' = [hold EXCEPT ![s] = signalHandlerCell]
            /\ spc' = [spc EXCEPT ![s] = "watching"]
       ELSE /\ spc' = [spc EXCEPT ![s] = "creating"]
            /\ UNCHANGED <<handlers, hold>>
    /\ UNCHANGED <<signalHandlerCell, listeners, sigints, hitAttached>>
    /\ UNCHANGED <<progVars, burstVars, fwVars, mpscVars>>
\* ... None: a new state is created, its listener is spawned, and
\* SIGNAL_HANDLER.set(..).ok() keeps the cell's content if it has one by now;
\* the caller goes on with the state it created
S_Create(s) ==
    /\ spc[s] = "creating"
    /\ handlers' = Append(handlers, NewSignalState)
    /\ listeners' = Append(listeners, "spawned")
    /\ signalHandlerCell' = IF signalHandlerCell = 0
                            THEN Len(handlers) + 1 ELSE signalHandlerCell
    /\ hold' = [hold EXCEPT ![s] = Len(handlers) + 1]
    /\ spc' = [spc EXCEPT ![s] = "watching"]
    /\ UNCHANGED <<sigints, hitAttached>>
    /\ UNCHANGED <<progVars, burstVars, fwVars, mpscVars>>
\* wait_for_cancellation() finds the flag set: the session leaves its select!
S_Poll(s) ==
    /\ spc[s] = "watching"
    /\ handlers[hold[s]].cancellation_requested
    /\ spc' = [spc EXCEPT ![s] = "leaving"]
    /\ UNCHANGED <<handlers, signalHandlerCell, listeners, hold, sigints, hitAttached>>
    /\ UNCHANGED <<progVars, burstVars, fwVars, mpscVars>>
\* the watcher_result future completes by itself (the stream yields an error)
S_WatcherDone(s) ==
    /\ spc[s] = "watching"
    /\ spc' = [spc EXCEPT ![s] = "leaving"]
    /\ UNCHANGED <<handlers, signalHandlerCell, listeners, hold, sigints, hitAttached>>
    /\ UNCHANGED <<progVars, burstVars, fwVars, mpscVars>>
\* cleanup_signal_handler(), then the session's function returns
S_Cleanup(s) ==
    /\ spc[s] = "leaving"
    /\ handlers' = [handlers EXCEPT ![hold[s]] = Detach(@)]
    /\ spc' = [spc EXCEPT ![s] = "returned"]
    /\ UNCHANGED <<signalHandlerCell, listeners, hold, sigints, hitAttached>>
    /\ UNCHANGED <<progVars, burstVars, fwVars, mpscVars>>
\* a spawned listener is polled for the first time: signal(interrupt()) registers it
L_Register(k) ==
    /\ k \in DOMAIN listeners /\ listeners[k] = "spawned"
    /\ listeners' = [listeners EXCEPT ![k] = "waiting"]
    /\ UNCHANGED <<handlers, signalHandlerCell, spc, hold, sigints, hitAttached>>
    /\ UNCHANGED <<progVars, burstVars, fwVars, mpscVars>>
\* SIGINT once signal(interrupt()) has installed the process-wide handler
\* (before that the default disposition ends the process): the recv() of
\* every listener registered by now becomes ready
Sigint ==
    /\ sigints < MaxInterrupts
    /\ \E k \in DOMAIN listeners : listeners[k] # "spawned"
    /\ sigints' = sigints + 1
    /\ listeners' = [k \in DOMAIN listeners |->
                        IF listeners[k] = "waiting" THEN "received" ELSE listeners[k]]
    /\ hitAttached' = (hitAttached \/ \A s \in Sessions : spc[s] = "watching")
    /\ UNCHANGED <<handlers, signalHandlerCell, spc, hold>>
    /\ UNCHANGED <<progVars, burstVars, fwVars, mpscVars>>
\* the listener locks its state and sets cancellation_requested
L_SetFlag(k) ==
    /\ k \in DOMAIN listeners /\ listeners[k] = "received"
    /\ handlers' = [handlers EXCEPT ![k].cancellation_requested = TRUE]
    /\ listeners' = [listeners EXCEPT ![k] = "done"]
    /\ UNCHANGED <<signalHandlerCell, spc, hold, sigints, hitAttached>>
    /\ UNCHANGED <<progVars, burstVars, fwVars, mpscVars>>

CoordNext ==
    \/ \E s \in Sessions :
          S_Get(s) \/ S_Create(s) \/ S_Poll(s) \/ S_WatcherDone(s) \/ S_Cleanup(s)
    \/ \E k \in Sessions : L_Register(k) \/ L_SetFlag(k)
    \/ Sigint
\* the scheduler runs every task that is ready: a session that can poll, leave
\* or finish its setup does, and so does a listener
CoordFairness ==
    /\ \A s \in Sessions :
          WF_vars(S_Get(s)) /\ WF_vars(S_Create(s)) /\ WF_vars(S_Poll(s)) /\ WF_vars(S_Cleanup(s))
    /\ \A k \in Sessions : WF_vars(L_Register(k)) /\ WF_vars(L_SetFlag(k))
CoordInit ==
    /\ Init /\ mode = "run" /\ ~dry_run /\ tasksAvailable
    /\ order = <<[executable |-> TRUE, watched |-> TRUE, cacheHit |-> FALSE,
                  env |-> "default"]>>
SpecCoord == CoordInit /\ [][CoordNext]_vars /\ CoordFairness

\* ---- FileWatcher::new, one call (reload.rs) ---------------------------------
\* the arguments of the call: one to MaxPaths patterns
PathLists == UNION {[1..k -> PatternKinds] : k \in 1..MaxPaths}
\* a path queued for watching: the pattern it comes from and which path it is
\* (the pattern's own path or match, its parent, current_dir)
WatchEntry(i, root) == [path |-> i, root |-> root]
\* the closure of par_iter().map(): Err for a pattern wax rejects, or else
\* Ok(paths_to_watch)
ExpandPath(i) ==
    IF PatternRejected(paths[i])
    THEN [ok |-> FALSE, paths |-> <<>>]
    ELSE LET roots == PathsToWatch(paths[i])
         IN  [ok |-> TRUE,
              paths |-> IF roots = {} THEN <<>>
                        ELSE <<WatchEntry(i, CHOOSE r \in roots : TRUE)>>]
\* (mutant: the watches installed before the failure stay registered)
NewFails_KeepsWatches ==
    /\ fwpc' = "err"
    /\ UNCHANGED <<os_watches, watched_vec>>
\* new returns Err: the local watcher is dropped, and with it every watch it
\* had registered, the receiver and watched_paths
NewFails ==
    /\ fwpc' = "err"
    /\ os_watches' = <<>> /\ watched_vec' = <<>>

\* RecommendedWatcher::new(..)? fails
N_CreateFails ==
    /\ fwpc = "called"
    /\ NewFails
    /\ UNCHANGED <<paths, path_results, result_idx>>
    /\ UNCHANGED <<progVars, burstVars, coVars, mpscVars>>
\* every path is expanded and the results are collected in the order given
N_Expand ==
    /\ fwpc = "called"
    /\ path_results' = [i \in DOMAIN paths |-> ExpandPath(i)]
    /\ fwpc' = "installing"
    /\ UNCHANGED <<paths, result_idx, os_watches, watched_vec>>
    /\ UNCHANGED <<progVars, burstVars, coVars, mpscVars>>
\* Ok(paths): watcher.watch(&path, mode)? succeeds for the paths of the
\* result and each is pushed to watched_paths
N_Watch ==
    /\ fwpc = "installing" /\ result_idx <= Len(path_results)
    /\ path_results[result_idx].ok
    /\ os_watches' = os_watches \o path_results[result_idx].paths
    /\ watched_vec' = watched_vec \o path_results[result_idx].paths
    /\ result_idx' = result_idx + 1
    /\ UNCHANGED <<paths, fwpc, path_results>>
    /\ UNCHANGED <<progVars, burstVars, coVars, mpscVars>>
\* Ok(paths): watcher.watch(&path, mode)? fails for a path of the result
N_WatchFails ==
    /\ fwpc = "installing" /\ result_idx <= Len(path_results)
    /\ path_results[result_idx].ok
    /\ path_results[result_idx].paths # <<>>
    /\ NewFails
    /\ UNCHANGED <<paths, path_results, result_idx>>
    /\ UNCHANGED <<progVars, burstVars, coVars, mpscVars>>
\* Err(e) => return Err(e)
N_PatternErr ==
    /\ fwpc = "installing" /\ result_idx <= Len(path_results)
    /\ ~path_results[result_idx].ok
    /\ NewFails
    /\ UNCHANGED <<paths, path_results, result_idx>>
    /\ UNCHANGED <<progVars, burstVars, coVars, mpscVars>>
\* every result is installed: Ok(Self { _watcher, rx, watched_paths })
N_Ok ==
    /\ fwpc = "installing" /\ result_idx > Len(path_results)
    /\ fwpc' = "ok"
    /\ UNCHANGED <<paths, path_results, result_idx, os_watches, watched_vec>>
    /\ UNCHANGED <<progVars, burstVars, coVars, mpscVars>>

NewNext == N_CreateFails \/ N_Expand \/ N_Watch \/ N_WatchFails \/ N_PatternErr \/ N_Ok
NewInit ==
    /\ InitProg({"path_exists"}) /\ CoInit /\ FwInit(PathLists) /\ MpscInit
    /\ mode = "watch" /\ ~dry_run /\ tasksAvailable
    /\ order = <<[executable |-> TRUE, watched |-> TRUE, cacheHit |-> FALSE,
                  env |-> "default"]>>
SpecNew == NewInit /\ [][NewNext]_vars

\* ---- the FileWatcher's channel, item by item (reload.rs) --------------------
\* the n-th result the notifier passes to the callback, as recv() returns it
Item(n) == [tag |-> "Some", item |-> n]
\* the Sender is moved into the callback, which the field _watcher owns
SenderAlive == watcherAlive
\* rx.recv().await: the oldest pending item; not ready while the channel is
\* empty and a Sender exists; None once it is empty and every Sender is gone
Recv(q, sender) ==
    IF q # <<>> THEN Item(Head(q))
    ELSE IF sender THEN [tag |-> "Pending", item |-> 0]
    ELSE [tag |-> "None", item |-> 0]
\* FileWatcher::new: the channel and the watcher that owns the callback
Q_New ==
    /\ ~watcherAlive /\ watchersCreated = 0
    /\ watcherAlive' = TRUE /\ queue' = <<>>
    /\ watchersCreated' = 1
    /\ UNCHANGED <<eventsSent, last_reload, last_exec_time, debounced, mpscVars>>
    /\ UNCHANGED <<cfgVars, ctlVars, sigVars, cacheVars, envVars, runVars, chanVars,
                   coordVars, now, burstVars, coVars, fwVars>>
\* the notifier calls the callback with its next result (one call at a time,
\* on the notifier's thread)
Q_Callback ==
    /\ watcherAlive /\ sending = 0
    /\ eventsSent < MaxSends
    /\ eventsSent' = eventsSent + 1
    /\ sending' = eventsSent + 1
    /\ UNCHANGED <<watcherAlive, queue, watchersCreated, last_reload, last_exec_time,
                   debounced, received>>
    /\ UNCHANGED <<cfgVars, ctlVars, sigVars, cacheVars, envVars, runVars, chanVars,
                   coordVars, now, burstVars, coVars, fwVars>>
\* (mutant: an item that finds the channel full is discarded, as with try_send)
Q_SendCompletes_Discards ==
    /\ watcherAlive /\ sending # 0
    /\ queue' = IF Len(queue) < ChannelCapacity THEN Append(queue, sending) ELSE queue
    /\ sending' = 0
    /\ UNCHANGED <<watcherAlive, eventsSent, watchersCreated, last_reload, last_exec_time,
                   debounced, received>>
    /\ UNCHANGED <<cfgVars, ctlVars, sigVars, cacheVars, envVars, runVars, chanVars,
                   coordVars, now, burstVars, coVars, fwVars>>
\* tx.blocking_send(res) returns: it waited until the channel had room
Q_SendCompletes ==
    /\ watcherAlive /\ sending # 0
    /\ Len(queue) < ChannelCapacity
    /\ queue' = Append(queue, sending)
    /\ sending' = 0
    /\ UNCHANGED <<watcherAlive, eventsSent, watchersCreated, last_reload, last_exec_time,
                   debounced, received>>
    /\ UNCHANGED <<cfgVars, ctlVars, sigVars, cacheVars, envVars, runVars, chanVars,
                   coordVars, now, burstVars, coVars, fwVars>>
\* next_event() returns what recv() returned
Q_NextEvent ==
    /\ watcherAlive
    /\ Recv(queue, SenderAlive).tag # "Pending"
    /\ received' = Append(received, Recv(queue, SenderAlive))
    /\ queue' = IF queue = <<>> THEN queue ELSE Tail(queue)
    /\ UNCHANGED <<watcherAlive, eventsSent, watchersCreated, last_reload, last_exec_time,
                   debounced, sending>>
    /\ UNCHANGED <<cfgVars, ctlVars, sigVars, cacheVars, envVars, runVars, chanVars,
                   coordVars, now, burstVars, coVars, fwVars>>
\* the FileWatcher is dropped: the Receiver is gone, a blocking_send that was
\* waiting returns Err and `let _ =` drops it
Q_Drop ==
    /\ watcherAlive
    /\ watcherAlive' = FALSE /\ queue' = <<>>
    /\ sending' = 0
    /\ UNCHANGED <<eventsSent, watchersCreated, last_reload, last_exec_time, debounced,
                   received>>
    /\ UNCHANGED <<cfgVars, ctlVars, sigVars, cacheVars, envVars, runVars, chanVars,
                   coordVars, now, burstVars, coVars, fwVars>>

ChannelNext == Q_New \/ Q_Callback \/ Q_SendCompletes \/ Q_NextEvent \/ Q_Drop
ChannelInit ==
    /\ Init /\ mode = "watch" /\ ~dry_run /\ tasksAvailable
    /\ order = <<[executable |-> TRUE, watched |-> TRUE, cacheHit |-> FALSE,
                  env |-> "default"]>>
SpecChannel == ChannelInit /\ [][ChannelNext]_vars

\* ---- the claims -----------------------------------------------------------
RunsOf(t) == {r \in DOMAIN runs : runs[r].task = t}
FailedRuns == {r \in DOMAIN runs : runs[r].st = "exited" /\ runs[r].code # 0}

\* C1 (as claimed): save_cache is called for a task only after an execution of
\* its command was seen to finish with exit code 0, never in dry-run mode, and
\* never when the task's session ended by a cancellation, a watcher error or a
\* failed run.
C1_SavedOnlyAfterSuccess ==
    \A t \in DOMAIN order :
        t \in saved =>
            /\ ~dry_run
            /\ t \in observedZero
            /\ endCause[t] \notin {"cancel", "watch_error", "failed"}

\* C2: with dry-run on, no command is ever started, the cache gate is neither
\* consulted nor written, no file watcher is created, and the invocation, when
\* it returns, returns success.
C2_DryRunDoesNothing ==
    dry_run =>
        /\ runs = <<>>
        /\ consulted = {} /\ saved = {}
        /\ watchersCreated = 0 /\ ~watcherAlive
        /\ result \in {"none", "ok", "sigint"}
        /\ (pc = "done" => result = "ok")
C2_Witness ==
    /\ dry_run /\ mode = "run" /\ pc = "done" /\ result = "ok"
    /\ Len(order) = 2
    /\ \A t \in DOMAIN order : order[t].executable /\ ~order[t].cacheHit
    /\ order[1].watched

\* C3 (as claimed): in run, once a command of a task has finished with a
\* non-zero exit code, it is the last command started, the task's cache record
\* is not written and the process has exited with that code.
C3_AnyFailureEndsRun ==
    mode = "run" =>
        \A r \in FailedRuns :
            /\ r = Len(runs)
            /\ runs[r].task \notin saved
            /\ pc = "exited" /\ result = "nonzero" /\ exitCode = runs[r].code
\* C3 (the part the code keeps): the same for the command of a plain task and
\* for the initial run of a task with watched files. The exit code of a re-run
\* that a file event triggered is dropped (run.rs 444), which is where the
\* code departs from C3.
C3_StepFailureEndsRun ==
    mode = "run" =>
        \A r \in FailedRuns :
            runs[r].kind # "rerun" =>
                /\ r = Len(runs)
                /\ runs[r].task \notin saved
                /\ pc = "exited" /\ result = "nonzero" /\ exitCode = runs[r].code
C3_Witness ==
    /\ mode = "run" /\ Len(order) = 2
    /\ Len(runs) = 2 /\ runs[1].task = 1 /\ runs[2].task = 2
    /\ runs[2].st = "exited" /\ runs[2].code = 1
    /\ saved = {1} /\ exitCode = 1 /\ result = "nonzero"

C6_SkipRunsNothing ==
    mode = "run" =>
        /\ \A t \in consulted :
               order[t].cacheHit =>
                   /\ RunsOf(t) = {}
                   /\ t \notin envComputedFor
                   /\ t \notin saved
                   /\ task_idx > t
        /\ result = "nonzero" =>
               /\ exitCode = runs[Len(runs)].code
               /\ ~order[runs[Len(runs)].task].cacheHit
C6_Witness ==
    /\ mode = "run" /\ Len(order) = 2
    /\ order[1].executable /\ order[1].cacheHit /\ 1 \in consulted
    /\ order[2].executable /\ ~order[2].cacheHit
    /\ Len(runs) = 1 /\ runs[1].task = 2
    /\ result = "nonzero" /\ exitCode = runs[1].code /\ exitCode = 1

\* C7 (as claimed): in a watch session at most one run of the command is in
\* flight.
C7_OneRunInFlight ==
    mode = "watch" => Cardinality(Running) <= 1

\* C8 (as claimed): the kill signal of a run that was in flight when the
\* session was cancelled, or when a restart replaced it, has been triggered.
C8_KillSignalTriggered ==
    mode = "watch" =>
        \A r \in Running :
            (r # task_handle \/ endCause[1] = "cancel") => r \in killTriggered

\* C9 (as claimed): in a watch session with inputs, once the current run has
\* exited by itself, and with no file event and no cancellation to handle, the
\* session stays in its watch loop and starts no run.
C9_StaysOpenAfterExit ==
    [][(/\ mode = "watch" /\ pc = "w_loop"
        /\ runs[task_handle].st = "exited"
        /\ queue = <<>> /\ cancelPending = 0)
       => (pc' = "w_loop" /\ Len(runs') = Len(runs))]_vars

Restarts == {r \in DOMAIN runs : runs[r].kind \in {"rerun", "restart"}}

\* C11 (as claimed): when a burst of at least two changes, all made within
\* less than one debounce window, has been handled by a session, the session
\* has restarted its task exactly once.
C11_BurstOneRestart ==
    (/\ burstSize >= 2 /\ watchersCreated = 1 /\ watcherAlive /\ queue = <<>>
     /\ pc \in {"w_loop", "r_wloop", "r_rerun"})
    => Cardinality(Restarts) = 1

\* C12 (as claimed): when only files that match none of the task's patterns
\* are changed, the watch session never restarts the task, whatever the
\* pattern.
C12_UnwatchedNeverRestarts ==
    Restarts = {}

\* C13: once a session has taken the cancellation, it is out of its loop for
\* good: the invocation is past the session, no run of the task is started
\* any more and the session handles no further event.
C13_CancelTerminates ==
    [][\A t \in DOMAIN order :
          endCause[t] = "cancel" =>
              /\ mode = "watch" => /\ pc \in {"w_after", "done", "exited"}
                                   /\ ~watcherAlive /\ queue' = queue
                                   /\ last_reload' = last_reload
              /\ mode = "run" => task_idx > t
              /\ RunsOf(t)' = RunsOf(t)
      ]_vars
C13_Witness ==
    /\ mode = "watch" /\ pc = "done" /\ result = "ok"
    /\ endCause[1] = "cancel" /\ Len(runs) = 2 /\ eventsSent = 2

\* C14 (as claimed): in watch, once the handler has dealt with an interrupt
\* and the process has not ended, the cancellation is waiting in the session's
\* channel or the session has returned.
C14_InterruptNeverLost ==
    (mode = "watch" /\ Alive /\ interrupts > 0 /\ hpc = "idle")
    => (cancelPending > 0 \/ pc = "w_after")

C16_NoUnderflow ==
    \A k \in DOMAIN handlers :
        /\ handlers[k].active_watchers >= 0
        /\ handlers[k].active_watchers = Cardinality(AttachedTo(k))
C16_Witness ==
    /\ Len(handlers) = 1 /\ handlers[1].active_watchers = 0
    /\ \A s \in Sessions : spc[s] = "returned" /\ hold[s] = 1
    /\ sigints = 1 /\ handlers[1].cancellation_requested

C18_FlagMonotone ==
    [][cancellation_requested => cancellation_requested']_vars
C18_Witness ==
    /\ mode = "run" /\ cancellation_requested
    /\ task_idx = 2 /\ pc = "r_wloop" /\ active_watchers = 1
    /\ endCause[1] = "cancel"

\* C19 (as claimed): active_watchers is the number of sessions that attached
\* and have not returned: one while the session of run is in its loop, zero
\* otherwise.
C19_CountMatchesSessions ==
    mode = "run" =>
        active_watchers = (IF pc \in {"r_wloop", "r_rerun"} THEN 1 ELSE 0)

\* C20 (as claimed): for a pattern with glob metacharacters the construction
\* of the watcher never fails on account of the pattern; the existing matches
\* are watched, and with no match the working directory is, so that a change
\* to any file under it is reported.
C20_GlobAlwaysBuilds ==
    IsGlob(pattern) =>
        /\ endCause[1] # "pattern_error"
        /\ watcherAlive =>
               /\ pattern = "glob_matching" => "matches" \in watched_paths
               /\ pattern = "glob_unmatched" =>
                      /\ CurrentDir \in watched_paths
                      /\ \A f \in Files : Observed(f)
\* C20 (amended): ... for a pattern with glob metacharacters that wax accepts,
\* the construction never fails on account of the pattern, and the watcher it
\* yields watches the existing matches or, with no match, the working
\* directory.
C20_AcceptedGlobBuilds ==
    (IsGlob(pattern) /\ ~PatternRejected(pattern)) =>
        /\ endCause[1] # "pattern_error"
        /\ watcherAlive =>
               /\ pattern = "glob_matching" => "matches" \in watched_paths
               /\ pattern = "glob_unmatched" =>
                      /\ CurrentDir \in watched_paths
                      /\ \A f \in Files : Observed(f)
C20_Witness ==
    /\ pattern = "glob_unmatched" /\ watcherAlive /\ pc = "w_loop"
    /\ queue # <<>> /\ Head(queue) = "Create"

\* the entries of watched_paths that come from the i-th given path
EntriesOf(i) == {k \in DOMAIN watched_vec : watched_vec[k].path = i}

\* C21 (as claimed): when new has returned a watcher, every given plain path
\* that does not exist has an entry in watched_paths (its nearest existing
\* ancestor), whether or not its immediate parent exists.
C21_MissingPathWatched ==
    fwpc = "ok" =>
        \A i \in DOMAIN paths :
            paths[i] \in {"path_missing", "path_orphan"} => EntriesOf(i) # {}

\* C22: when every given path is a plain path that exists and new has returned
\* a watcher, watched_paths is the given paths themselves, one entry for each,
\* and each of them is registered with the notifier.
C22_ExistingPathsWatched ==
    (fwpc = "ok" /\ \A i \in DOMAIN paths : paths[i] = "path_exists") =>
        /\ Len(watched_vec) = Len(paths)
        /\ \A i \in DOMAIN paths : watched_vec[i] = WatchEntry(i, "matches")
        /\ os_watches = watched_vec
C22_Witness ==
    /\ fwpc = "ok" /\ Len(paths) = MaxPaths
    /\ \A i \in DOMAIN paths : paths[i] = "path_exists"
    /\ Len(watched_vec) = MaxPaths

\* C23: new returns a watcher only if no pattern was rejected and every queued
\* path was installed; when it returns an error nothing stays registered with
\* the notifier and no watched path is kept.
C23_FailureAbortsAll ==
    /\ fwpc = "err" => os_watches = <<>> /\ watched_vec = <<>>
    /\ fwpc = "ok" =>
           /\ \A i \in DOMAIN paths : ~PatternRejected(paths[i])
           /\ \A i \in DOMAIN path_results :
                  \A k \in DOMAIN path_results[i].paths :
                      \E w \in DOMAIN os_watches : os_watches[w] = path_results[i].paths[k]
C23_Witness ==
    /\ fwpc = "err" /\ result_idx = 3
    /\ paths[1] = "path_exists" /\ paths[2] = "glob_unmatched"
    /\ paths[3] = "path_missing"

\* C24: watch on a topological order of more than one node starts no command,
\* consults and writes no cache record, creates no watcher, and when it
\* returns it has printed the single-task message and returns success.
C24_MultiTaskRejected ==
    (mode = "watch" /\ Len(order) > 1) =>
        /\ runs = <<>>
        /\ consulted = {} /\ saved = {}
        /\ watchersCreated = 0 /\ ~watcherAlive
        /\ result \in {"none", "ok", "sigint"}
        /\ pc = "done" =>
               /\ result = "ok" /\ exitCode = 0
               /\ \A t \in DOMAIN order : endCause[t] = "single_task_only"
C24_Witness ==
    /\ mode = "watch" /\ Len(order) = 2 /\ pc = "done" /\ result = "ok"
    /\ ~dry_run /\ \A t \in DOMAIN order : order[t].executable /\ ~order[t].cacheHit
    /\ order[1].watched /\ endCause[1] = "single_task_only"

C26_NoExitWhileRunning ==
    (mode = "watch" /\ handlerInstalled /\ pc = "exited" /\ result = "sigint") =>
        Running = {}

\* C27: no two runs have the same kill signal, and the step that ends the
\* grace sleep always starts the command again, with neither a call of
\* can_skip nor a cache write.
C27_RestartFreshUngated ==
    /\ [](\A r1, r2 \in DOMAIN runs : r1 # r2 => runs[r1].token # runs[r2].token)
    /\ [][(pc = "w_grace" /\ pc' # "w_grace") =>
              /\ pc' \in {"w_loop", "exited"}
              /\ pc' = "w_loop" =>
                     /\ Len(runs') = Len(runs) + 1
                     /\ runs'[Len(runs')].kind = "restart"
                     /\ runs'[Len(runs')].st = "running"
                     /\ consulted' = consulted /\ saved' = saved
      ]_vars
C27_Witness ==
    /\ mode = "watch" /\ pc = "w_loop" /\ Len(runs) = 2
    /\ runs[2].kind = "restart" /\ runs[1].st = "running"
    /\ runs[1].token # runs[2].token /\ order[1].cacheHit = FALSE

\* the runs of the session that a restart has replaced
Superseded == {r \in DOMAIN runs : r < task_handle}

\* C28: in watch, an exit code that ends the process is the code of the run
\* started last, and the step in which a superseded run finishes changes
\* neither the session's position, nor the outcome of the process, nor the
\* cache records.
C28_OnlyLatestAuthoritative ==
    /\ [](mode = "watch" /\ result = "nonzero" =>
              /\ task_handle = Len(runs)
              /\ runs[task_handle].st = "exited"
              /\ exitCode = runs[task_handle].code)
    /\ [][(mode = "watch" /\ \E r \in Superseded :
                                 runs[r].st = "running" /\ runs'[r].st = "exited") =>
              /\ UNCHANGED <<pc, result, exitCode, saved, endCause, observedZero>>
      ]_vars
C28_Witness ==
    /\ mode = "watch" /\ pc = "w_loop" /\ Len(runs) = 2 /\ task_handle = 2
    /\ runs[1].st = "exited" /\ runs[1].code = 1
    /\ runs[2].st = "running" /\ ~was_cancelled

\* the tasks an execution of which failed with a typed error
TypedFailure(t) ==
    \/ endCause[t] \in ScriptOutcomes \ {"ok"}
    \/ \E r \in RunsOf(t) : runs[r].kind = "attempt"

\* C29 (as claimed): in run, once an execution of a task has failed with a
\* typed error, the invocation has returned that error, the task's cache
\* record is not written, no later task was started and nothing was executed
\* after the failure.
C29_TypedErrorStops ==
    mode = "run" =>
        \A t \in DOMAIN order :
            TypedFailure(t) =>
                /\ pc = "done" /\ result = "error" /\ task_idx = t
                /\ t \notin saved
                /\ \A r \in DOMAIN runs : runs[r].task <= t
                /\ \A r \in RunsOf(t) : runs[r].kind = "attempt" => r = Len(runs)

StartErrors == {"pattern_error", "notify_error"}
StreamError == "watch_error"

\* C32: when the watcher could not be constructed, the invocation has returned
\* an error without entering the session's loop and without any restart; after
\* an error item of the stream the session is out of its loop and its watcher
\* is dropped; and in both cases no run of the task is started any more.
C32_WatchErrorFatal ==
    /\ [](\A t \in DOMAIN order :
            /\ endCause[t] \in StartErrors =>
                   /\ pc = "done" /\ result = "error" /\ ~watcherAlive
                   /\ \A r \in RunsOf(t) : runs[r].kind = "initial"
                   /\ mode = "watch" => runs = <<>>
            /\ endCause[t] = StreamError =>
                   /\ ~watcherAlive
                   /\ mode = "watch" => pc \in {"w_after", "done", "exited"}
                   /\ mode = "run" => pc = "done" /\ result = "error")
    /\ [][\A t \in DOMAIN order :
            endCause[t] \in StartErrors \cup {StreamError} => RunsOf(t)' = RunsOf(t)
      ]_vars
C32_Witness ==
    /\ mode = "watch" /\ endCause[1] = StreamError /\ pc = "w_after"
    /\ Len(runs) = 2 /\ runs[2].kind = "restart" /\ runs[2].st = "running"
    /\ eventsSent = 2

\* C33 (as claimed): the watch loop never polls a task handle whose result it
\* has already taken.
C33_HandleConsumedOnce ==
    mode = "watch" => ~(pc = "panicked" /\ handleConsumed)

\* the re-runs and attempts of a session that failed
FailedReruns ==
    {r \in DOMAIN runs :
        \/ runs[r].kind = "attempt"
        \/ runs[r].kind = "rerun" /\ runs[r].st = "exited" /\ runs[r].code # 0}
\* C34: in run, a failure of the initial run of a task with watched files ends
\* the task before the session attaches to the coordinator or creates a
\* watcher; a re-run that fails (non-zero code or typed error) leaves the
\* session in its loop (or lets it end with Ok when cancellation is requested)
\* and no session that had a failed re-run ends as failed.
C34_InitialFatalRerunsIgnored ==
    /\ [](mode = "run" =>
            \A t \in DOMAIN order :
              (\E r \in FailedReruns : runs[r].task = t) =>
                    endCause[t] \in {"none", "cancel", "watch_error"})
    /\ [][(/\ mode = "run" /\ task_idx \in DOMAIN order
           /\ HasWatchedFiles(task_idx)
           /\ endCause[task_idx] = "none"
           /\ endCause'[task_idx] \in
                 {"failed", "FailedToParseShellScript", "InvalidWorkingDirectory"}) =>
             /\ pc' \in {"exited", "done"} /\ result' \in {"nonzero", "error"}
             /\ signalHandlerSet' = signalHandlerSet
             /\ active_watchers' = active_watchers
             /\ watchersCreated' = watchersCreated
             /\ ~watcherAlive /\ ~watcherAlive'
             /\ \A r \in RunsOf(task_idx)' : runs'[r].kind = "initial"
         ]_vars
    /\ [][(mode = "run" /\ FailedReruns' # FailedReruns) =>
             /\ result' = result /\ exitCode' = exitCode
             /\ (cancellation_requested /\ pc' = "r_loop" /\ endCause'[task_idx] = "cancel")
                \/ (~cancellation_requested /\ pc' = "r_wloop" /\ watcherAlive')
         ]_vars
C34_Witness ==
    /\ mode = "run" /\ pc = "r_wloop" /\ watcherAlive
    /\ Len(runs) = 3 /\ runs[1].kind = "initial"
    /\ runs[2].kind = "rerun" /\ runs[2].st = "exited" /\ runs[2].code = 1
    /\ runs[3].kind = "attempt"
    /\ result = "none" /\ endCause[1] = "none"

\* the session is awaiting execute_task() inside its event loop
InRerun == pc = "r_rerun"
\* C35: in run, at most one command of the session is executing in every
\* state, a re-run is started only when no command is executing, and while a
\* re-run executes the events that arrive are appended to the queue and none
\* is taken off it.
C35_RunSerialized ==
    /\ [](mode = "run" =>
            /\ Cardinality(Running) <= 1
            /\ InRerun <=> (Running # {} /\ runs[Len(runs)].kind = "rerun"))
    /\ [][(mode = "run" /\ Len(runs') > Len(runs) /\ runs'[Len(runs')].st = "running")
             => Running = {}]_vars
    /\ [][(mode = "run" /\ InRerun /\ InRerun') =>
             /\ Len(queue') >= Len(queue)
             /\ SubSeq(queue', 1, Len(queue)) = queue
             /\ runs' = runs]_vars
C35_Witness ==
    /\ mode = "run" /\ InRerun /\ watcherAlive
    /\ Len(runs) = 2 /\ runs[2].kind = "rerun" /\ runs[2].st = "running"
    /\ eventsSent = 2 /\ Len(queue) = 1 /\ Qualifies(Head(queue))
    /\ now - last_exec_time >= DebounceRun

\* the positions of a run session: its initial run, its loop, a re-run
InRunSession == pc \in {"r_init", "r_wloop", "r_rerun"}
\* C36 (as claimed), for the session of the first task of the order, where an
\* interrupt the process has survived can only have come during the session:
\* once an interrupt has been delivered, the session eventually terminates.
C36_InterruptNotLost ==
    (mode = "run" /\ task_idx = 1 /\ InRunSession /\ interrupts > 0)
        ~> ~(task_idx = 1 /\ InRunSession)

\* the second task's session has called setup_signal_handler() on a state
\* whose flag the first task's session left set
LateAttached ==
    IF Len(order) >= 2
    THEN /\ mode = "run" /\ endCause[1] = "cancel"
         /\ HasWatchedFiles(2) /\ 2 \in observedZero
    ELSE FALSE
\* ... and has returned, with the given causes
LateReturned(causes) ==
    IF LateAttached THEN endCause[2] \in causes ELSE FALSE
\* the causes with which a session ends
EndCauses == {"cancel", "watch_error", "pattern_error", "notify_error"}
\* C37 (as claimed): a session that attaches after cancellation was requested
\* terminates with no further interrupt, and when it has terminated it has
\* returned success and active_watchers is back to its value before the attach.
C37_LateAttachReturns ==
    /\ (LateAttached /\ task_idx = 2 /\ InRunSession) ~> LateReturned(EndCauses)
    /\ [](LateReturned(EndCauses) =>
             (LateReturned({"cancel"}) /\ active_watchers = 0))

\* C38: in watch, when the cache gate has answered Skip the invocation has
\* returned success in that very step: no command was started, no environment
\* computed, no watcher created, no loop entered and no cache record saved.
C38_WatchSkipReturns ==
    [](mode = "watch" =>
         \A t \in consulted :
            order[t].cacheHit =>
                /\ pc = "done" /\ result = "ok" /\ exitCode = 0
                /\ runs = <<>> /\ task_handle = 0
                /\ envComputedFor = {}
                /\ watchersCreated = 0 /\ ~watcherAlive /\ ~subscribed
                /\ saved = {})
    /\ [][(mode = "watch" /\ consulted' # consulted /\ order[1].cacheHit) =>
             (pc' = "done" /\ result' = "ok")]_vars
C38_Witness ==
    /\ mode = "watch" /\ pc = "done" /\ result = "ok"
    /\ handlerInstalled /\ ~dry_run
    /\ consulted = {1} /\ order[1].cacheHit /\ order[1].watched
    /\ runs = <<>> /\ saved = {}

\* the loop takes a create, modify or remove event off the stream
W_TakesChange ==
    /\ mode = "watch" /\ pc = "w_loop" /\ queue # <<>>
    /\ Head(queue) \in {"Create", "Modify", "Remove"}
Delivered == [k \in 1..Len(received) |-> received[k].item]
\* the item the callback holds while blocking_send has not returned
InFlight == IF sending = 0 THEN <<>> ELSE <<sending>>
\* C40: while the FileWatcher is alive, the items returned by next_event(),
\* then the pending ones, then the one being sent are exactly the items the
\* notifier produced, in the order it produced them; next_event() has never
\* returned the end of the stream; never more than 100 items are pending, and
\* a callback that finds 100 pending keeps its item until there is room.
C40_QueueFifoNoLoss ==
    /\ [](watcherAlive =>
            /\ Delivered \o queue \o InFlight = [k \in 1..eventsSent |-> k]
            /\ \A k \in DOMAIN received : received[k].tag = "Some"
            /\ Len(queue) <= ChannelCapacity)
    /\ [][(watcherAlive /\ watcherAlive' /\ sending # 0 /\ Len(queue) = ChannelCapacity)
            => (sending' = sending /\ eventsSent' = eventsSent)]_vars
C40_Witness ==
    /\ watcherAlive /\ Len(queue) = ChannelCapacity /\ sending = ChannelCapacity + 2
    /\ Len(received) = 1 /\ received[1] = Item(1)

====
